---- MODULE Spec2Model ----
(***************************************************************************)
(* Performance Indicator (PI) drivers of pacospace/performance:            *)
(*   tensorflow/conv1d.py                   (numeric-op driver, PiConv1D)  *)
(*   python_interpreter/pipyperformance.py  (suite bridge, PiPyPerformance)*)
(* One process invocation of either script is modelled statement by        *)
(* statement.  Strings that the code parses are sequences of characters,   *)
(* floating point values are exact rationals <<num, den>> or NaN/Inf.      *)
(***************************************************************************)
EXTENDS Integers, Sequences, FiniteSets, TLC

\* ------------------------------------------------------------------ bounds
\* at most MaxSet environment variables are set for one invocation
MaxSet == 1
\* the wall-clock durations of successive runs repeat with period <= PatLen
PatLen == 2
\* the invoked suite writes at most MaxSuiteLines progress lines
MaxSuiteLines == 1

\* ------------------------------------------------------- character strings
S_float16 == <<"f","l","o","a","t","1","6">>
S_float32 == <<"f","l","o","a","t","3","2">>
S_float64 == <<"f","l","o","a","t","6","4">>
S_int8 == <<"i","n","t","8">>
S_cpu == <<"c","p","u">>
S_gpu == <<"g","p","u">>
S_NWC == <<"N","W","C">>
S_NCW == <<"N","C","W">>
S_NHWC == <<"N","H","W","C">>
S_SAME == <<"S","A","M","E">>
S_VALID == <<"V","A","L","I","D">>

Digits == <<"0","1","2","3","4","5","6","7","8","9">>

IsDigit(c) == \E k \in 1..10 : Digits[k] = c

DigitVal(c) == (CHOOSE k \in 1..10 : Digits[k] = c) - 1

\* str.strip() as int() applies it: blanks at both ends are dropped
RECURSIVE Strip(_)
Strip(s) ==
  IF Len(s) > 0 /\ s[1] = " " THEN Strip(Tail(s))
  ELSE IF Len(s) > 0 /\ s[Len(s)] = " " THEN Strip(SubSeq(s, 1, Len(s) - 1))
       ELSE s

\* the digits of a string after the blanks and an optional sign
Unsigned(s) ==
  LET t == Strip(s)
  IN  IF Len(t) > 0 /\ t[1] \in {"-", "+"} THEN Tail(t) ELSE t

\* int(str) succeeds: optional sign, then decimal digits, single underscores
\* allowed between digits
IsIntLiteral(s) ==
  LET u == Unsigned(s)
  IN  /\ Len(u) > 0
      /\ \A k \in 1..Len(u) : IsDigit(u[k]) \/ u[k] = "_"
      /\ IsDigit(u[1]) /\ IsDigit(u[Len(u)])
      /\ \A k \in 1..(Len(u) - 1) : ~(u[k] = "_" /\ u[k + 1] = "_")

RECURSIVE DigitsVal(_)
DigitsVal(s) ==
  IF Len(s) = 0 THEN 0
  ELSE IF s[Len(s)] = "_" THEN DigitsVal(SubSeq(s, 1, Len(s) - 1))
       ELSE 10 * DigitsVal(SubSeq(s, 1, Len(s) - 1)) + DigitVal(s[Len(s)])

\* int(str) for a string that is an integer literal
IntOf(s) ==
  IF Len(Strip(s)) > 0 /\ Strip(s)[1] = "-" THEN 0 - DigitsVal(Unsigned(s))
  ELSE DigitsVal(Unsigned(s))

RECURSIVE NatStr(_)
NatStr(n) ==
  IF n < 10 THEN <<Digits[n + 1]>>
  ELSE NatStr(n \div 10) \o <<Digits[(n % 10) + 1]>>

\* str(int)
StrOfInt(n) == IF n < 0 THEN <<"-">> \o NatStr(0 - n) ELSE NatStr(n)

\* --------------------------------------------------------------- rationals
Abs(n) == IF n < 0 THEN 0 - n ELSE n

RECURSIVE Gcd(_, _)
Gcd(a, b) == IF b = 0 THEN a ELSE Gcd(b, a % b)

\* the rational n/d (d # 0) in lowest terms with a positive denominator
Frac(n, d) ==
  LET g == Gcd(Abs(n), Abs(d))
      s == IF d < 0 THEN 0 - 1 ELSE 1
  IN  <<(s * n) \div g, (s * d) \div g>>

NaN == <<0, 0>>
PosInf == <<1, 0>>
NegInf == <<0 - 1, 0>>

IsFinite(q) == q[2] # 0

FracLeq(p, q) == p[1] * q[2] <= q[1] * p[2]

FracMul(p, q) == Frac(p[1] * q[1], p[2] * q[2])

FracAdd(p, q) == Frac(p[1] * q[2] + q[1] * p[2], p[2] * q[2])

\* IEEE division as numpy performs it: x/0 is +-inf, 0/0 and nan/x are nan
FracDiv(p, q) ==
  IF ~IsFinite(p) \/ ~IsFinite(q) THEN NaN
  ELSE IF q[1] = 0
       THEN IF p[1] > 0 THEN PosInf ELSE IF p[1] < 0 THEN NegInf ELSE NaN
       ELSE Frac(p[1] * q[2], p[2] * q[1])


\* the k-th smallest element of a list of rationals (what sorting the list
\* and indexing it at k yields)
KthSmallest(s, k) ==
  LET below(x) == Cardinality({j \in 1..Len(s) : ~FracLeq(x, s[j])})
      upto(x) == Cardinality({j \in 1..Len(s) : FracLeq(s[j], x)})
  IN  s[CHOOSE j \in 1..Len(s) : below(s[j]) < k /\ upto(s[j]) >= k]

\* np.median: the middle element of the sorted sample, the mean of the two
\* middle elements when its length is even, nan when it is empty
Median(s) ==
  LET n == Len(s)
  IN  IF n = 0 THEN NaN
      ELSE IF n % 2 = 1 THEN KthSmallest(s, (n + 1) \div 2)
           ELSE FracMul(Frac(1, 2),
                        FracAdd(KthSmallest(s, n \div 2), KthSmallest(s, (n \div 2) + 1)))

\* ------------------------------------------------------------- environment
\* the names of the environment variables conv1d.py reads, in reading order
EnvVars == <<"TENSOR_DTYPE", "CONV2D_DEVICE", "CONV_REPS", "CONV_DATA_FORMAT",
             "BATCH", "TENSOR_INPUT_WIDTH", "TENSOR_INPUT_CHANNELS",
             "FILTER_INPUT_WIDTH", "FILTER_INPUT_CHANNELS",
             "FILTER_OUTPUT_CHANNELS", "FILTER_PADDING", "FILTER_STRIDE">>

\* the module-level _ARGS_* in the order of their assignment:
\* the key used for the value, its variable, how it is read, its default
Params == <<
  [key |-> "dtype",             var |-> "TENSOR_DTYPE",           int |-> FALSE, default |-> S_float32],
  [key |-> "device",            var |-> "CONV2D_DEVICE",          int |-> FALSE, default |-> S_cpu],
  [key |-> "reps",              var |-> "CONV_REPS",              int |-> TRUE,  default |-> 80],
  [key |-> "data_format",       var |-> "CONV_DATA_FORMAT",       int |-> FALSE, default |-> S_NWC],
  [key |-> "batch",             var |-> "BATCH",                  int |-> TRUE,  default |-> 1],
  [key |-> "input_width",       var |-> "TENSOR_INPUT_WIDTH",     int |-> TRUE,  default |-> 7],
  [key |-> "input_channels",    var |-> "TENSOR_INPUT_CHANNELS",  int |-> TRUE,  default |-> 1],
  [key |-> "filter_width",      var |-> "FILTER_INPUT_WIDTH",     int |-> TRUE,  default |-> 3],
  [key |-> "f_input_channels",  var |-> "FILTER_INPUT_CHANNELS",  int |-> TRUE,  default |-> "_ARGS_T_INPUT_CHANNELS"],
  [key |-> "output_channels",   var |-> "FILTER_OUTPUT_CHANNELS", int |-> TRUE,  default |-> 1],
  [key |-> "padding",           var |-> "FILTER_PADDING",         int |-> FALSE, default |-> S_SAME],
  [key |-> "strides",           var |-> "FILTER_STRIDE",          int |-> TRUE,  default |-> 2] >>

NParams == Len(Params)

\* values an environment variable is given in the explored invocations
EnvValues(v) ==
  CASE v = "TENSOR_DTYPE" -> {S_float64, S_int8}
    [] v = "CONV2D_DEVICE" -> {S_gpu}
    [] v = "CONV_REPS" -> {<<"0">>, <<"1">>, <<"2">>, <<"3">>, <<"-","1">>, <<"x">>}
    [] v = "CONV_DATA_FORMAT" -> {S_NCW, S_NHWC}
    [] v = "BATCH" -> {<<"2">>, <<" ","3">>, <<>>}
    [] v = "TENSOR_INPUT_WIDTH" -> {<<"1","0">>, <<"1","_","2">>, <<"7","x">>}
    [] v = "TENSOR_INPUT_CHANNELS" -> {<<"3">>, <<"x">>}
    [] v = "FILTER_INPUT_WIDTH" -> {<<"5">>, <<"+","2">>, <<"-">>}
    [] v = "FILTER_INPUT_CHANNELS" -> {<<"3">>, <<"c">>}
    [] v = "FILTER_OUTPUT_CHANNELS" -> {<<"4">>, <<"1",".","0">>}
    [] v = "FILTER_PADDING" -> {S_VALID}
    [] v = "FILTER_STRIDE" -> {<<"1">>, <<"4">>, <<"0">>, <<"s">>}

AllEnvValues == UNION {EnvValues(EnvVars[k]) : k \in 1..Len(EnvVars)}

\* os.environ restricted to the variables read: at most MaxSet of them set
Environments ==
  UNION { {e \in [D -> AllEnvValues] : \A v \in D : e[v] \in EnvValues(v)} :
          D \in {X \in SUBSET {EnvVars[k] : k \in 1..Len(EnvVars)} :
                   Cardinality(X) <= MaxSet} }

\* wall-clock duration of one sess.run, in milliseconds
Durations == {0, 5, 10}

Patterns == UNION {[1..n -> Durations] : n \in 1..PatLen}

\* ------------------------------------------------------------------- state
VARIABLES
  driver,      \* which script this process runs
  env,         \* os.environ (the variables that are set)
  pattern,     \* durations (ms) the successive sess.run calls take, cyclically
  pc,          \* the statement the process is at
  idx,         \* index of the next _ARGS_* assignment
  args,        \* the module-level _ARGS_* resolved so far, by key
  execLog,     \* duration of every completed sess.run(convolution.op), in order
  times,       \* bench(): the list `times` (seconds)
  i,           \* bench(): the loop variable of range(_ARGS_REPS)
  measured,    \* what bench() returned: rate, elapsed and the ops behind them
  report,      \* the dict `result`
  stdout,      \* everything written to file descriptor 1, in order
  stderr,      \* everything written to file descriptor 2, in order
  exitStatus,  \* <<status>> once the process has ended, <<>> before
  argv,        \* pipyperformance: sys.argv
  sys_stdout,  \* pipyperformance: the descriptor sys.stdout writes to
  artifact,    \* pipyperformance: content of the file output.json
  exc,         \* pipyperformance: the SystemExit that bench() raised, its code
  benchmarks   \* pipyperformance: json.load(output)

vars == <<driver, env, pattern, pc, idx, args, execLog, times, i, measured,
          report, stdout, stderr, exitStatus, argv, sys_stdout, artifact, exc,
          benchmarks>>

convVars == <<idx, args, execLog, times, i, measured>>

suiteVars == <<argv, sys_stdout, artifact, exc, benchmarks>>

None == "None"
Absent == "absent"
\* no SystemExit caught so far
NoExc == [kind |-> "unset", n |-> 0, s |-> <<>>]

\* an exception nobody catches: traceback on stderr, exit status 1
Uncaught(e) ==
  /\ pc' = "done"
  /\ exitStatus' = <<1>>
  /\ stderr' = Append(stderr, "Traceback: " \o e)

Init ==
  /\ driver \in {"conv1d", "pipyperformance"}
  /\ env \in (IF driver = "conv1d" THEN Environments ELSE {<<>>})
  /\ pattern \in (IF driver = "conv1d" THEN Patterns ELSE {<<0>>})
  /\ pc = (IF driver = "conv1d" THEN "resolve" ELSE "extend_argv")
  /\ idx = 1
  /\ args = <<>>
  /\ execLog = <<>>
  /\ times = <<>>
  /\ i = 0
  /\ measured = None
  /\ report = None
  /\ stdout = <<>>
  /\ stderr = <<>>
  /\ exitStatus = <<>>
  /\ argv = <<"pipyperformance.py">>
  /\ sys_stdout = 1
  /\ artifact \in (IF driver = "conv1d" THEN {Absent} ELSE {Absent, "stale bundle"})
  /\ exc = NoExc
  /\ benchmarks = None

\* ------------------------------------------------- conv1d.py: module level
\* os.getenv(var, default) for a parameter used as a string
StrParam(var, default) ==
  [ok |-> TRUE, val |-> IF var \in DOMAIN env THEN env[var] ELSE default]

\* IntParam with a fallback: a value that is no integer literal yields the
\* default instead of raising
IntParamLenient(var, default) ==
  IF var \in DOMAIN env /\ IsIntLiteral(env[var])
  THEN [ok |-> TRUE, val |-> IntOf(env[var])]
  ELSE [ok |-> TRUE, val |-> default]

\* int(os.getenv(var, default)): int() of a string that is no integer
\* literal raises ValueError
IntParam(var, default) ==
  IF var \in DOMAIN env
  THEN IF IsIntLiteral(env[var])
       THEN [ok |-> TRUE, val |-> IntOf(env[var])]
       ELSE [ok |-> FALSE, val |-> 0]
  ELSE [ok |-> TRUE, val |-> default]

\* the default of the idx-th parameter: FILTER_INPUT_CHANNELS defaults to
\* the resolved _ARGS_T_INPUT_CHANNELS
DefaultOf(p) ==
  IF p.key = "f_input_channels" THEN args["input_channels"] ELSE p.default

\* one `_ARGS_X = ...` assignment and the print that follows it
ResolveParam ==
  /\ driver = "conv1d" /\ pc = "resolve" /\ idx <= NParams
  /\ LET p == Params[idx]
         r == IF p.int THEN IntParam(p.var, DefaultOf(p))
                       ELSE StrParam(p.var, DefaultOf(p))
     IN  IF r.ok
         THEN /\ args' = (p.key :> r.val) @@ args
              /\ stderr' = Append(stderr, p.var \o " set to")
              /\ idx' = idx + 1
              /\ pc' = IF idx = NParams THEN "main" ELSE "resolve"
              /\ UNCHANGED exitStatus
         ELSE /\ Uncaught("ValueError: invalid literal for int()")
              /\ UNCHANGED <<args, idx>>
  /\ UNCHANGED <<driver, env, pattern, execLog, times, i, measured, report,
                 stdout>>
  /\ UNCHANGED suiteVars

\* ------------------------------------------------------- conv1d.py: main()
\* main() up to the call of bench(): the version line goes to stderr
MainBegin ==
  /\ driver = "conv1d" /\ pc = "main"
  /\ stderr' = Append(stderr, "# Version")
  /\ pc' = "construct"
  /\ UNCHANGED <<driver, env, pattern, report, stdout, exitStatus>>
  /\ UNCHANGED convVars
  /\ UNCHANGED suiteVars

\* bench(): building the graph. An unknown data format raises ValueError;
\* any tf call may raise (tfOk = FALSE)
Construct ==
  /\ driver = "conv1d" /\ pc = "construct"
  /\ \E tfOk \in BOOLEAN :
       IF args["data_format"] \notin {S_NWC, S_NCW}
       THEN Uncaught("ValueError: Unknown data_format")
       ELSE IF tfOk
            THEN pc' = "session" /\ UNCHANGED <<stderr, exitStatus>>
            ELSE Uncaught("tf error in graph construction")
  /\ UNCHANGED <<driver, env, pattern, report, stdout>>
  /\ UNCHANGED convVars
  /\ UNCHANGED suiteVars

\* times = []; the session is opened and the variables are initialized
SessionInit ==
  /\ driver = "conv1d" /\ pc = "session"
  /\ times' = <<>>
  /\ \E tfOk \in BOOLEAN :
       IF tfOk
       THEN pc' = "warmup" /\ UNCHANGED <<stderr, exitStatus>>
       ELSE Uncaught("tf error in global_variables_initializer")
  /\ UNCHANGED <<driver, env, pattern, report, stdout>>
  /\ UNCHANGED <<idx, args, execLog, i, measured>>
  /\ UNCHANGED suiteVars

\* the duration (ms) of the next sess.run(convolution.op)
NextDuration == pattern[(Len(execLog) % Len(pattern)) + 1]

\* sess.run(convolution.op) completes and is recorded by the workload
RunOnce == execLog' = Append(execLog, NextDuration)

\* Warmup with the warm-up run timed like a repetition
WarmupTimed ==
  /\ driver = "conv1d" /\ pc = "warmup"
  /\ \E tfOk \in BOOLEAN :
       IF tfOk
       THEN /\ RunOnce
            /\ times' = Append(times, Frac(NextDuration, 1000))
            /\ i' = 0
            /\ pc' = "loop"
            /\ UNCHANGED <<stderr, exitStatus>>
       ELSE /\ Uncaught("tf error in warm-up run")
            /\ UNCHANGED <<execLog, times, i>>
  /\ UNCHANGED <<driver, env, pattern, report, stdout>>
  /\ UNCHANGED <<idx, args, measured>>
  /\ UNCHANGED suiteVars

\* the warm-up run: executed, not timed
Warmup ==
  /\ driver = "conv1d" /\ pc = "warmup"
  /\ \E tfOk \in BOOLEAN :
       IF tfOk
       THEN /\ RunOnce
            /\ i' = 0
            /\ pc' = "loop"
            /\ UNCHANGED <<stderr, exitStatus>>
       ELSE /\ Uncaught("tf error in warm-up run")
            /\ UNCHANGED <<execLog, i>>
  /\ UNCHANGED <<driver, env, pattern, report, stdout>>
  /\ UNCHANGED <<idx, args, times, measured>>
  /\ UNCHANGED suiteVars

\* TimedRun with the failure of a run caught: the traceback is logged and
\* the loop goes on without a sample
TimedRunCatching ==
  /\ driver = "conv1d" /\ pc = "loop" /\ i < args["reps"]
  /\ \E tfOk \in BOOLEAN :
       IF tfOk
       THEN /\ RunOnce
            /\ times' = Append(times, Frac(NextDuration, 1000))
            /\ UNCHANGED stderr
       ELSE /\ stderr' = Append(stderr, "Traceback: tf error in timed run")
            /\ UNCHANGED <<execLog, times>>
  /\ i' = i + 1
  /\ UNCHANGED <<driver, env, pattern, pc, report, stdout, exitStatus>>
  /\ UNCHANGED <<idx, args, measured>>
  /\ UNCHANGED suiteVars

\* one iteration of `for i in range(_ARGS_REPS)`: time.time() around the run,
\* the difference (seconds) appended to times
TimedRun ==
  /\ driver = "conv1d" /\ pc = "loop" /\ i < args["reps"]
  /\ \E tfOk \in BOOLEAN :
       IF tfOk
       THEN /\ RunOnce
            /\ times' = Append(times, Frac(NextDuration, 1000))
            /\ i' = i + 1
            /\ UNCHANGED <<pc, stderr, exitStatus>>
       ELSE /\ Uncaught("tf error in timed run")
            /\ UNCHANGED <<execLog, times, i>>
  /\ UNCHANGED <<driver, env, pattern, report, stdout>>
  /\ UNCHANGED <<idx, args, measured>>
  /\ UNCHANGED suiteVars

\* times_ms = 1000 * np.array(times)
TimesMs(ts) == [k \in 1..Len(ts) |-> FracMul(Frac(1000, 1), ts[k])]

\* the number of operations of the convolution, before the division
OpsNumerator(a) ==
  a["batch"] * a["input_width"] * a["filter_width"] * a["input_channels"]
    * a["output_channels"] * 2

\* ops = (...) / (_ARGS_STRIDE), Python true division
Ops(a) == Frac(OpsNumerator(a), a["strides"])

\* Rate without the scaling to GFLOPS
RateUnscaled(ops, elapsed_ms) == FracDiv(ops, elapsed_ms)

\* rate = ops / elapsed_ms / 10 ** 6
Rate(ops, elapsed_ms) == FracDiv(FracDiv(ops, elapsed_ms), Frac(1000000, 1))

\* bench() after the loop: median, ops, rate, the summary line on stderr.
\* A stride of 0 raises ZeroDivisionError
Reduce ==
  /\ driver = "conv1d" /\ pc = "loop" /\ ~(i < args["reps"])
  /\ IF args["strides"] = 0
     THEN /\ Uncaught("ZeroDivisionError")
          /\ UNCHANGED measured
     ELSE LET elapsed_ms == Median(TimesMs(times))
              ops == Ops(args)
          IN  /\ measured' = [rate |-> Rate(ops, elapsed_ms),
                              elapsed |-> elapsed_ms, ops |-> ops]
              /\ stderr' = Append(stderr, "conv took")
              /\ pc' = "result"
              /\ UNCHANGED exitStatus
  /\ UNCHANGED <<driver, env, pattern, report, stdout>>
  /\ UNCHANGED <<idx, args, execLog, times, i>>
  /\ UNCHANGED suiteVars

\* what _get_aicoe_tensorflow_build_info() finds in build_info.json
BuildInfo == "build_info.json"

\* the keys of "@parameters" in main()
EchoedKeys == {"dtype", "device", "reps", "batch", "input_width",
               "input_channels", "filter_width", "output_channels", "strides",
               "padding", "data_format"}

\* the dict `result` of main()
ConvResult(a, m, buildinfo) ==
  ("framework" :> "tensorflow") @@ ("name" :> "PiConv1D")
    @@ ("@parameters" :> [k \in EchoedKeys |-> a[k]])
    @@ ("@result" :> [rate |-> m.rate, elapsed |-> m.elapsed])
    @@ ("tensorflow_buildinfo" :> buildinfo)

\* BuildResult with a probe that lets its exception escape
BuildResultProbeRaises ==
  /\ driver = "conv1d" /\ pc = "result"
  /\ \E readable \in BOOLEAN :
       IF readable
       THEN /\ report' = ConvResult(args, measured, BuildInfo)
            /\ pc' = "emit"
            /\ UNCHANGED <<stderr, exitStatus>>
       ELSE /\ pc' = "done"
            /\ exitStatus' = <<1>>
            /\ stderr' = stderr \o <<"Failed to obtain AICoE specific build information",
                                     "Traceback: FileNotFoundError: build_info.json">>
            /\ UNCHANGED report
  /\ UNCHANGED <<driver, env, pattern, stdout>>
  /\ UNCHANGED convVars
  /\ UNCHANGED suiteVars

\* main(): the dict `result` is built; its last value is the build-info
\* probe, which returns the parsed file, or logs the exception and returns
\* None when the file cannot be opened or parsed (readable = FALSE)
BuildResult ==
  /\ driver = "conv1d" /\ pc = "result"
  /\ \E readable \in BOOLEAN :
       IF readable
       THEN /\ report' = ConvResult(args, measured, BuildInfo)
            /\ UNCHANGED stderr
       ELSE /\ report' = ConvResult(args, measured, None)
            /\ stderr' = Append(stderr, "Failed to obtain AICoE specific build information")
  /\ pc' = "emit"
  /\ UNCHANGED <<driver, env, pattern, stdout, exitStatus>>
  /\ UNCHANGED convVars
  /\ UNCHANGED suiteVars

\* json.dump of a dict: None is written as null, everything else as it is
JsonNull == "null"

JsonDump(d) == [k \in DOMAIN d |-> IF k = "tensorflow_buildinfo" /\ d[k] = None
                                    THEN JsonNull ELSE d[k]]

\* json.dump(result, sys.stdout, indent=2); main() returns, exit status 0
Emit ==
  /\ driver = "conv1d" /\ pc = "emit"
  /\ stdout' = Append(stdout, [kind |-> "json", doc |-> JsonDump(report)])
  /\ pc' = "done"
  /\ exitStatus' = <<0>>
  /\ UNCHANGED <<driver, env, pattern, report, stderr>>
  /\ UNCHANGED convVars
  /\ UNCHANGED suiteVars

\* ------------------------------------------------------ pipyperformance.py
\* sys.argv.extend([...]): the arguments the suite is run with
SuiteArgs == <<"run", "--python=python3", "-o", "output.json", "-b", "chameleon">>

ExtendArgv ==
  /\ driver = "pipyperformance" /\ pc = "extend_argv"
  /\ argv' = argv \o SuiteArgs
  /\ pc' = "bench"
  /\ UNCHANGED <<driver, env, pattern, report, stdout, stderr, exitStatus>>
  /\ UNCHANGED convVars
  /\ UNCHANGED <<sys_stdout, artifact, exc, benchmarks>>

\* text written through sys.stdout lands on the descriptor it refers to
WriteSysStdout(n, out, err) ==
  LET text == [k \in 1..n |-> [kind |-> "text", doc |-> "suite output"]]
  IN  IF sys_stdout = 1 THEN <<out \o text, err>>
      ELSE <<out, err \o [k \in 1..n |-> "suite output"]>>

\* the SystemExit values the suite ends with: sys.exit(n), sys.exit(msg),
\* sys.exit()
SystemExits ==
  {[kind |-> "int", n |-> 0, s |-> <<>>], [kind |-> "int", n |-> 1, s |-> <<>>],
   [kind |-> "int", n |-> 2, s |-> <<>>],
   [kind |-> "str", n |-> 0, s |-> <<"e","r","r">>],
   [kind |-> "none", n |-> 0, s |-> <<>>]}

\* what the suite may leave in output.json when it does not return
Leftovers == {"bundle", "truncated"}

\* try: bench(): the suite runs with sys.stdout as it is, writes progress,
\* and returns after suite.dump(options.output), or raises
RunSuite ==
  /\ driver = "pipyperformance" /\ pc = "bench"
  /\ \E n \in 0..MaxSuiteLines, outcome \in {"return", "SystemExit", "Exception"} :
       LET w == WriteSysStdout(n, stdout, stderr)
       IN  /\ stdout' = w[1]
           /\ CASE outcome = "return" ->
                     /\ artifact' = "bundle"
                     /\ stderr' = w[2]
                     /\ pc' = "redirect"
                     /\ UNCHANGED <<exc, exitStatus>>
                [] outcome = "SystemExit" ->
                     /\ exc' \in SystemExits
                     /\ artifact' \in {artifact} \cup Leftovers
                     /\ stderr' = w[2]
                     /\ pc' = "except"
                     /\ UNCHANGED exitStatus
                [] outcome = "Exception" ->
                     /\ artifact' \in {artifact} \cup Leftovers
                     /\ pc' = "done"
                     /\ exitStatus' = <<1>>
                     /\ stderr' = Append(w[2], "Traceback: suite error")
                     /\ UNCHANGED exc
  /\ UNCHANGED <<driver, env, pattern, report>>
  /\ UNCHANGED convVars
  /\ UNCHANGED <<argv, sys_stdout, benchmarks>>

\* str(exc) of a SystemExit
StrOfExc(e) ==
  CASE e.kind = "int" -> StrOfInt(e.n)
    [] e.kind = "str" -> e.s
    [] e.kind = "none" -> <<>>

\* HandleSystemExit that swallows the exit of the suite and ends the
\* harness with status 0
HandleSystemExitExitsZero ==
  /\ driver = "pipyperformance" /\ pc = "except"
  /\ stderr' = Append(stderr, "pyperformance did not finish successfully")
  /\ pc' = "done"
  /\ exitStatus' = <<0>>
  /\ UNCHANGED <<driver, env, pattern, report, stdout>>
  /\ UNCHANGED convVars
  /\ UNCHANGED suiteVars

\* except SystemExit as exc: int(str(exc)) raises ValueError unless the code
\* prints as an integer; for a code other than 0 the arguments of print are
\* evaluated, and int(exc) of an exception object raises TypeError
HandleSystemExit ==
  /\ driver = "pipyperformance" /\ pc = "except"
  /\ IF ~IsIntLiteral(StrOfExc(exc))
     THEN Uncaught("ValueError: invalid literal for int()")
     ELSE IF IntOf(StrOfExc(exc)) # 0
          THEN Uncaught("TypeError: int() argument must not be SystemExit")
          ELSE pc' = "redirect" /\ UNCHANGED <<stderr, exitStatus>>
  /\ UNCHANGED <<driver, env, pattern, report, stdout>>
  /\ UNCHANGED convVars
  /\ UNCHANGED suiteVars

\* original_stdout = sys.stdout; sys.stdout = a duplicate of stderr
RedirectStdout ==
  /\ driver = "pipyperformance" /\ pc = "redirect"
  /\ sys_stdout' = 2
  /\ pc' = "read"
  /\ UNCHANGED <<driver, env, pattern, report, stdout, stderr, exitStatus>>
  /\ UNCHANGED convVars
  /\ UNCHANGED <<argv, artifact, exc, benchmarks>>

\* with open("output.json") as output: benchmarks = json.load(output)
ReadArtifact ==
  /\ driver = "pipyperformance" /\ pc = "read"
  /\ IF artifact = Absent
     THEN Uncaught("FileNotFoundError: output.json") /\ UNCHANGED benchmarks
     ELSE IF artifact = "truncated"
          THEN Uncaught("JSONDecodeError") /\ UNCHANGED benchmarks
          ELSE /\ benchmarks' = artifact
               /\ pc' = "emit"
               /\ UNCHANGED <<stderr, exitStatus>>
  /\ UNCHANGED <<driver, env, pattern, report, stdout>>
  /\ UNCHANGED convVars
  /\ UNCHANGED <<argv, sys_stdout, artifact, exc>>

\* the dict `result` of pipyperformance.py
SuiteResult(b) ==
  ("test_suite" :> "performance") @@ ("name" :> "PiPyPerformance")
    @@ ("@parameters" :> <<>>) @@ ("@result" :> b)

\* result = {...}; json.dump(result, original_stdout, indent=2); sys.exit(0)
EmitSuite ==
  /\ driver = "pipyperformance" /\ pc = "emit"
  /\ report' = SuiteResult(benchmarks)
  /\ stdout' = Append(stdout, [kind |-> "json", doc |-> JsonDump(SuiteResult(benchmarks))])
  /\ pc' = "done"
  /\ exitStatus' = <<0>>
  /\ UNCHANGED <<driver, env, pattern, stderr>>
  /\ UNCHANGED convVars
  /\ UNCHANGED suiteVars

\* ------------------------------------------------------------ specification
Next ==
  \/ ResolveParam
  \/ MainBegin
  \/ Construct
  \/ SessionInit
  \/ Warmup
  \/ TimedRun
  \/ Reduce
  \/ BuildResult
  \/ Emit
  \/ ExtendArgv
  \/ RunSuite
  \/ HandleSystemExit
  \/ RedirectStdout
  \/ ReadArtifact
  \/ EmitSuite

Spec == Init /\ [][Next]_vars

\* ------------------------------------------------------------------ claims
Ended == pc = "done"

Succeeded == Ended /\ exitStatus = <<0>>

\* the positions of stdout that hold a serialized Report
ReportsOnStdout == {k \in 1..Len(stdout) : stdout[k].kind = "json"}

\* C1: on every exit path of either driver, standard output holds at most
\* one serialized Report and nothing else, exactly one after a successful
\* run; all other text is on stderr.
C1_StdoutOnlyReport ==
  /\ \A k \in 1..Len(stdout) : stdout[k].kind = "json"
  /\ Len(stdout) <= 1
  /\ Succeeded => Len(stdout) = 1

\* the k-th parameter is an integer parameter set to a string that int()
\* rejects
Malformed(k) ==
  /\ Params[k].int
  /\ Params[k].var \in DOMAIN env
  /\ ~IsIntLiteral(env[Params[k].var])

C3_FieldsLegal ==
  (driver = "conv1d" /\ pc \in {"construct", "session", "warmup", "loop"}) =>
    /\ args["dtype"] \in {S_float16, S_float32, S_float64}
    /\ args["device"] \in {S_cpu, S_gpu}
    /\ args["data_format"] \in {S_NWC, S_NCW}
    /\ args["reps"] >= 1
    /\ args["strides"] >= 1

\* bench() got past its timing loop
Measured == driver = "conv1d" /\ (pc \in {"result", "emit"} \/ Succeeded)

\* C4: for r >= 1 and no failing run, the workload runs once untimed after
\* construction and initialization, then r times, one sample per repetition
\* in execution order: r samples, r + 1 executions.
C4_WarmupThenReps ==
  driver = "conv1d" =>
    /\ pc \in {"resolve", "main", "construct", "session", "warmup"} =>
         execLog = <<>> /\ times = <<>>
    /\ (pc = "loop" /\ args["reps"] >= 1) =>
         /\ Len(execLog) = Len(times) + 1
         /\ Len(times) <= args["reps"]
    /\ (Measured /\ args["reps"] >= 1) =>
         /\ Len(times) = args["reps"]
         /\ Len(execLog) = args["reps"] + 1
    /\ \A k \in 1..Len(times) :
         /\ k + 1 <= Len(execLog)
         /\ times[k][1] * 1000 = execLog[k + 1] * times[k][2]

\* a successful run of three repetitions whose runs took 0, 10, 0, 10 ms
C4_Witness ==
  /\ Measured /\ Succeeded
  /\ args["reps"] = 3
  /\ execLog = <<0, 10, 0, 10>>
  /\ Len(times) = 3

\* the suite ended with a non-zero exit: sys.exit(n) with n # 0, or
\* sys.exit(message)
SuiteExitNonZero == (exc.kind = "int" /\ exc.n # 0) \/ exc.kind = "str"

\* C5: a non-zero exit of the suite does not abort the harness: with the
\* artifact in place it goes on to emit exactly one Report wrapping it.
C5_NonZeroExitContinues ==
  (driver = "pipyperformance" /\ Ended /\ SuiteExitNonZero
     /\ artifact \in {"bundle", "stale bundle"}) =>
    /\ exitStatus = <<0>>
    /\ Cardinality(ReportsOnStdout) = 1
    /\ \A k \in ReportsOnStdout : stdout[k].doc["@result"] = artifact

\* C6: a non-zero exit of the suite with no artifact is fatal: no Report on
\* stdout and a non-zero exit status.
C6_RejectedNoArtifactFatal ==
  (driver = "pipyperformance" /\ SuiteExitNonZero /\ artifact = Absent) =>
    /\ ReportsOnStdout = {}
    /\ Ended => (exitStatus # <<0>> /\ exitStatus # <<>>)

\* the suite exited with status 2, there is no output.json, the harness
\* ended with status 1
C6_Witness ==
  /\ driver = "pipyperformance" /\ Ended
  /\ exc.kind = "int" /\ exc.n = 2
  /\ artifact = Absent
  /\ exitStatus = <<1>>
  /\ ReportsOnStdout = {}

\* the tracebacks of failures of workload construction and execution
WorkloadFailures ==
  {"Traceback: ValueError: Unknown data_format",
   "Traceback: tf error in graph construction",
   "Traceback: tf error in global_variables_initializer",
   "Traceback: tf error in warm-up run",
   "Traceback: tf error in timed run"}

WorkloadFailed == \E k \in 1..Len(stderr) : stderr[k] \in WorkloadFailures

\* C7: a failure of workload construction, of the warm-up or of a timed
\* repetition ends the run there: nothing on stdout, exit status non-zero.
C7_WorkloadFailureFatal ==
  (driver = "conv1d" /\ WorkloadFailed) =>
    /\ Ended
    /\ exitStatus = <<1>>
    /\ stdout = <<>>
    /\ stderr[Len(stderr)] \in WorkloadFailures

\* the second timed repetition failed
C7_Witness ==
  /\ driver = "conv1d" /\ Ended
  /\ stderr[Len(stderr)] = "Traceback: tf error in timed run"
  /\ Len(times) = 1
  /\ exitStatus = <<1>> /\ stdout = <<>>

ProbeFailed ==
  \E k \in 1..Len(stderr) :
    stderr[k] = "Failed to obtain AICoE specific build information"

\* C8: a failed build-info probe is recovered: the run goes on, emits exactly
\* one Report whose build-info field is present and null, and exits 0.
C8_ProbeFailureRecovered ==
  (driver = "conv1d" /\ ProbeFailed) =>
    /\ pc \in {"emit", "done"}
    /\ pc = "emit" => exitStatus = <<>>
    /\ Ended =>
         /\ exitStatus = <<0>>
         /\ Len(stdout) = 1
         /\ stdout[1].kind = "json"
         /\ "tensorflow_buildinfo" \in DOMAIN stdout[1].doc
         /\ stdout[1].doc["tensorflow_buildinfo"] = JsonNull

C8_Witness ==
  /\ driver = "conv1d" /\ ProbeFailed /\ Succeeded
  /\ Len(stdout) = 1
  /\ stdout[1].doc["tensorflow_buildinfo"] = JsonNull

\* scenario A: every parameter at its default, median elapsed time 10 ms
ScenarioA ==
  /\ args["batch"] = 1 /\ args["input_width"] = 7 /\ args["input_channels"] = 1
  /\ args["filter_width"] = 3 /\ args["output_channels"] = 1
  /\ args["strides"] = 2
  /\ measured.elapsed = <<10, 1>>

\* a Report of the numeric-op driver with a positive finite elapsed time
RateReported ==
  /\ driver = "conv1d" /\ Succeeded
  /\ measured.elapsed[2] # 0 /\ measured.elapsed[1] > 0

\* C9 as stated: total_operations = batch * input_width * filter_width *
\* input_channels * output_channels * 2 / stride, the reported rate is
\* total_operations / elapsed; in scenario A they are 21 and 2.1.
C9_RateIsOpsOverElapsed ==
  RateReported =>
    LET r == stdout[1].doc["@result"].rate
        e == stdout[1].doc["@result"].elapsed
        n == args["batch"] * args["input_width"] * args["filter_width"]
               * args["input_channels"] * args["output_channels"] * 2
    IN  /\ measured.ops[1] * args["strides"] = n * measured.ops[2]
        /\ r = Frac(n * e[2], args["strides"] * e[1])
        /\ ScenarioA => (measured.ops = <<21, 1>> /\ r = <<21, 10>>)

\* C9 amended: total_operations as stated; the reported rate is
\* total_operations / elapsed_ms / 10^6 (GFLOPS); in scenario A they are 21
\* and 2.1e-6.
C9_RateIsOpsOverElapsedMsOverMillion ==
  RateReported =>
    LET r == stdout[1].doc["@result"].rate
        e == stdout[1].doc["@result"].elapsed
        n == args["batch"] * args["input_width"] * args["filter_width"]
               * args["input_channels"] * args["output_channels"] * 2
    IN  /\ measured.ops[1] * args["strides"] = n * measured.ops[2]
        /\ r = Frac(n * e[2], args["strides"] * e[1] * 1000000)
        /\ e = measured.elapsed
        /\ ScenarioA => (measured.ops = <<21, 1>> /\ r = <<21, 10000000>>)

C9_Witness ==
  /\ RateReported /\ ScenarioA
  /\ env = <<>>
  /\ stdout[1].doc["@result"].rate = <<21, 10000000>>

\* C10: the parameters of the emitted Report hold every parameter resolved
\* for the run with its resolved value: in the numeric-op driver all twelve
\* _ARGS_*, in the suite bridge the selector and the interpreter path.
C10_ParametersEchoed ==
  \A k \in ReportsOnStdout :
    LET ps == stdout[k].doc["@parameters"]
    IN  IF driver = "conv1d"
        THEN \A key \in DOMAIN args : key \in DOMAIN ps /\ ps[key] = args[key]
        ELSE /\ \E key \in DOMAIN ps : ps[key] = "chameleon"
             /\ \E key \in DOMAIN ps : ps[key] = "python3"

====
